---------------------------- MODULE Spec2Model ----------------------------
(***************************************************************************)
(* The user schemas of src/users.py (Pydantic models for an ERP backend): *)
(* PyObjectId, UserRole, UserBase, UserCreate, UserUpdate, UserInDB and    *)
(* UserResponse, with the validation Pydantic runs when one of them is     *)
(* constructed from an untyped mapping.                                    *)
(*                                                                         *)
(* A Python str whose characters matter is a sequence of one-character     *)
(* strings; a Python value carries its type in the field t.                *)
(***************************************************************************)
EXTENDS Integers, Sequences, FiniteSets, TLC

VARIABLES now, stored, last

vars == <<now, stored, last>>

-----------------------------------------------------------------------------
(* Bounds of the model *)

\* The clock readings are 0..MaxTime.
MaxTime == 2
\* Identifier candidates are IdPad followed by at most MaxIdTail characters.
MaxIdTail == 3
\* Passwords are a padding followed by at most MaxPwTail characters.
MaxPwTail == 3
\* E-mail candidates have at most MaxEmailBody characters before the ".c" suffix.
MaxEmailBody == 3

-----------------------------------------------------------------------------
(* Python values *)

None == [t |-> "None"]
Absent == [t |-> "absent"]
Str(s) == [t |-> "str", s |-> s]
Word(w) == [t |-> "word", w |-> w]
Bool(b) == [t |-> "bool", v |-> b]
Datetime(n) == [t |-> "datetime", ts |-> n]
Oid(b) == [t |-> "ObjectId", b |-> b]

IsStr(v) == v.t = "str"

Rep(c, n) == [i \in 1..n |-> c]

RECURSIVE SeqsUpTo(_, _)
SeqsUpTo(S, n) ==
  IF n = 0 THEN {<<>>}
  ELSE LET shorter == SeqsUpTo(S, n - 1)
       IN  shorter \cup {Append(s, c) : s \in shorter, c \in S}

\* The outcome of validating one field, and of constructing a model.
Good(v) == [ok |-> TRUE, val |-> v]
Bad(k) == [ok |-> FALSE, kind |-> k]

-----------------------------------------------------------------------------
(* bson.ObjectId and PyObjectId *)

\* An ObjectId is 12 bytes; str(ObjectId) is their 24 lower-case hex digits.
OidBytes == 12
OidHexLen == 2 * OidBytes

HexLower == <<"0", "1", "2", "3", "4", "5", "6", "7",
              "8", "9", "a", "b", "c", "d", "e", "f">>
HexChars == {HexLower[i] : i \in 1..16} \cup {"A", "B", "C", "D", "E", "F"}
Whitespace == {" "}

RECURSIVE HexOf(_)
HexOf(bytes) ==
  IF bytes = <<>> THEN <<>>
  ELSE <<HexLower[(Head(bytes) \div 16) + 1], HexLower[(Head(bytes) % 16) + 1]>>
       \o HexOf(Tail(bytes))

\* str(value) of an ObjectId
ObjectId_str(o) == Str(HexOf(o.b))

\* bytes.fromhex(s) succeeds: pairs of hex digits, ASCII whitespace skipped
\* between the pairs (never inside one). bson's ObjectId decodes a str of 24
\* characters with it.
RECURSIVE FromHexOk(_)
FromHexOk(s) ==
  IF s = <<>> THEN TRUE
  ELSE IF Head(s) \in Whitespace THEN FromHexOk(Tail(s))
  ELSE /\ Len(s) >= 2
       /\ s[1] \in HexChars
       /\ s[2] \in HexChars
       /\ FromHexOk(SubSeq(s, 3, Len(s)))

\* ObjectId.is_valid(value) for a str: len(value) == 24 and bytes.fromhex(value)
\* does not raise.
ObjectId_is_valid(s) == Len(s) = OidHexLen /\ FromHexOk(s)

PyObjectId_validate_keepsObjectId(value) ==
  IF value.t = "ObjectId" THEN Good(value)
  ELSE IF IsStr(value) /\ ObjectId_is_valid(value.s) THEN Good(value)
  ELSE Bad("InvalidIdentifier")

PyObjectId_validate_onlyObjectId(value) ==
  IF value.t = "ObjectId" THEN Good(ObjectId_str(value))
  ELSE Bad("InvalidIdentifier")

PyObjectId_validate(value) ==
  IF value.t = "ObjectId" THEN Good(ObjectId_str(value))
  ELSE IF IsStr(value) /\ ObjectId_is_valid(value.s) THEN Good(value)
  ELSE Bad("InvalidIdentifier")

\* The identifier inputs of the model.
IdPad == Rep("0", OidHexLen - 2)
IdChars == {"0", "a", "A", "g", " "}
IdStrings == {Str(IdPad \o tl) : tl \in SeqsUpTo(IdChars, MaxIdTail)}
OidLastBytes == {0, 10, 171, 255}
ObjectIds == {Oid(Rep(0, OidBytes - 1) \o <<x>>) : x \in OidLastBytes}
IdInputs == IdStrings \cup ObjectIds \cup {None}

-----------------------------------------------------------------------------
(* Field rules: str methods, EmailStr, UserRole *)

UpperChars == {"A", "B", "C", "D", "E", "F"}
\* c.lower()
LowerChar(c) ==
  CASE c = "A" -> "a" [] c = "B" -> "b" [] c = "C" -> "c"
    [] c = "D" -> "d" [] c = "E" -> "e" [] c = "F" -> "f"
    [] OTHER -> c
\* s.lower()
Lower(s) == [i \in 1..Len(s) |-> LowerChar(s[i])]

\* s.strip()
RECURSIVE LStrip(_)
LStrip(s) ==
  IF s # <<>> /\ Head(s) \in Whitespace THEN LStrip(Tail(s)) ELSE s
RECURSIVE RStrip(_)
RStrip(s) ==
  IF s # <<>> /\ s[Len(s)] \in Whitespace THEN RStrip(SubSeq(s, 1, Len(s) - 1)) ELSE s
Strip(s) == RStrip(LStrip(s))

\* A dot-separated part (the local part, the domain) is well formed: not empty,
\* no whitespace, no "@", no empty label.
DotAtomOk(p) ==
  /\ p # <<>>
  /\ \A i \in 1..Len(p) : p[i] \notin Whitespace \cup {"@"}
  /\ p[1] # "." /\ p[Len(p)] # "."
  /\ \A i \in 1..(Len(p) - 1) : ~(p[i] = "." /\ p[i + 1] = ".")

AtPositions(s) == {i \in 1..Len(s) : s[i] = "@"}
LocalPart(s) == SubSeq(s, 1, (CHOOSE i \in AtPositions(s) : TRUE) - 1)
DomainPart(s) == SubSeq(s, (CHOOSE i \in AtPositions(s) : TRUE) + 1, Len(s))

\* The e-mail format rule: local@domain, the domain with at least one period.
EmailFormatOk(s) ==
  /\ Cardinality(AtPositions(s)) = 1
  /\ DotAtomOk(LocalPart(s))
  /\ DotAtomOk(DomainPart(s))
  /\ \E i \in 1..Len(DomainPart(s)) : DomainPart(s)[i] = "."

\* EmailStr: a str, stripped, checked against the format rule; the result is the
\* normalised address, the local part as written and the domain in lower case.
EmailStr(v) ==
  IF ~IsStr(v) THEN Bad("InvalidType")
  ELSE LET e == Strip(v.s)
       IN  IF EmailFormatOk(e)
           THEN Good(Str(LocalPart(e) \o <<"@">> \o Lower(DomainPart(e))))
           ELSE Bad("InvalidFormat")

RoleValues == {"admin", "project_lead", "member", "intern", "viewer"}
\* UserRole(value)
UserRole(v) ==
  IF v.t = "word" /\ v.w \in RoleValues THEN Good(v) ELSE Bad("InvalidEnum")

\* A str field without constraints
StrField(v) == IF IsStr(v) THEN Good(v) ELSE Bad("InvalidType")
\* A bool field
BoolField(v) == IF v.t = "bool" THEN Good(v) ELSE Bad("InvalidType")
\* An Optional[str] field without constraints
OptionalStr(v) == IF v = None \/ IsStr(v) THEN Good(v) ELSE Bad("InvalidType")
\* A datetime field
DatetimeField(v) == IF v.t = "datetime" THEN Good(v) ELSE Bad("InvalidType")

MinNameLen == 2
MaxNameLen == 100
\* str with min_length and max_length
BoundedStr(v, lo, hi) ==
  IF ~IsStr(v) THEN Bad("InvalidType")
  ELSE IF Len(v.s) < lo \/ Len(v.s) > hi THEN Bad("InvalidLength")
  ELSE Good(v)

-----------------------------------------------------------------------------
(* Construction of a model from an untyped mapping *)

AllKeys == {"full_name", "email", "role", "is_active", "avatar_url", "password",
            "_id", "id", "identifier", "hashed_password", "created_at", "updated_at"}

\* A mapping gives every key a value or Absent.
Empty == [k \in AllKeys |-> Absent]
Present(m) == {k \in AllKeys : m[k] # Absent}

\* The outcome of a construction from the outcomes of its fields: an exception
\* that is not a ValueError leaves the construction at once; otherwise every
\* failing field is reported together.
Outcome(res, fields_set) ==
  IF \E f \in DOMAIN res : ~res[f].ok /\ res[f].kind = "AttributeError"
  THEN [ok |-> FALSE, raised |-> "AttributeError", errors |-> {}]
  ELSE IF \E f \in DOMAIN res : ~res[f].ok
  THEN [ok |-> FALSE, raised |-> "ValidationError",
        errors |-> {[field |-> f, kind |-> res[f].kind] : f \in {g \in DOMAIN res : ~res[g].ok}}]
  ELSE [ok |-> TRUE, val |-> [f \in DOMAIN res |-> res[f].val], fields_set |-> fields_set]

\* A field of a model: the validator on the value given, else the default.
Field(m, k, validated, default) == IF m[k] = Absent THEN default ELSE validated
Required == Bad("MissingField")

(* UserBase *)
UserBase_full_name(v) == BoundedStr(v, MinNameLen, MaxNameLen)

\* normalise_email runs before EmailStr; on a value without strip() it raises
\* AttributeError.
UserBase_email(v) ==
  IF ~IsStr(v) THEN Bad("AttributeError")
  ELSE EmailStr(Str(Lower(Strip(v.s))))

UserBase_fields(m) ==
  [full_name  |-> Field(m, "full_name", UserBase_full_name(m["full_name"]), Required),
   email      |-> Field(m, "email", UserBase_email(m["email"]), Required),
   role       |-> Field(m, "role", UserRole(m["role"]), Good(Word("intern"))),
   is_active  |-> Field(m, "is_active", BoolField(m["is_active"]), Good(Bool(TRUE))),
   avatar_url |-> Field(m, "avatar_url", OptionalStr(m["avatar_url"]), Good(None))]

Merge(f, g) == [k \in DOMAIN f \cup DOMAIN g |-> IF k \in DOMAIN g THEN g[k] ELSE f[k]]

(* UserCreate *)
MinPasswordLen == 8
DecimalDigits == {"0", "1", "2", "3", "4", "5", "6", "7", "8", "9"}
\* Characters c with c.isdigit() that are no decimal digits, such as a superscript two.
OtherDigits == {"sup2"}
IsDigit(c) == c \in DecimalDigits \cup OtherDigits
IsUpper(c) == c \in UpperChars

password_strength_needsLower(v) ==
  IF ~\E i \in 1..Len(v.s) : IsDigit(v.s[i]) THEN Bad("WeakPassword")
  ELSE IF ~\E i \in 1..Len(v.s) : IsUpper(v.s[i]) THEN Bad("WeakPassword")
  ELSE IF ~\E i \in 1..Len(v.s) : v.s[i] = "a" THEN Bad("WeakPassword")
  ELSE Good(v)

password_strength(v) ==
  IF ~\E i \in 1..Len(v.s) : IsDigit(v.s[i]) THEN Bad("WeakPassword")
  ELSE IF ~\E i \in 1..Len(v.s) : IsUpper(v.s[i]) THEN Bad("WeakPassword")
  ELSE Good(v)

\* The length rule of the field, then the validator.
UserCreate_password(v) ==
  IF ~IsStr(v) THEN Bad("InvalidType")
  ELSE IF Len(v.s) < MinPasswordLen THEN Bad("InvalidLength")
  ELSE password_strength(v)

UserCreate_keepsExtra(m) ==
  LET res == Merge(UserBase_fields(m),
                   [password |-> Field(m, "password", UserCreate_password(m["password"]), Required)])
      all == Merge([k \in Present(m) |-> Good(m[k])], res)
  IN  Outcome(all, Present(m))

UserCreate(m) ==
  Outcome(Merge(UserBase_fields(m),
                [password |-> Field(m, "password", UserCreate_password(m["password"]), Required)]),
          Present(m) \cap {"full_name", "email", "role", "is_active", "avatar_url", "password"})

(* UserUpdate *)
UpdateFields == {"full_name", "email", "role", "is_active", "avatar_url"}

\* Optional[T]: None is accepted as it is.
Optional(v, validated) == IF v = None THEN Good(None) ELSE validated

UserUpdate_full_name(v) == Optional(v, BoundedStr(v, MinNameLen, MaxNameLen))
UserUpdate_email(v) == Optional(v, EmailStr(v))

\* The fields the caller gave (model_fields_set).
UserUpdate_fields_set_all(m) == UpdateFields

UserUpdate_fields_set(m) == Present(m) \cap UpdateFields

UserUpdate(m) ==
  Outcome([full_name  |-> Field(m, "full_name", UserUpdate_full_name(m["full_name"]), Good(None)),
           email      |-> Field(m, "email", UserUpdate_email(m["email"]), Good(None)),
           role       |-> Field(m, "role", Optional(m["role"], UserRole(m["role"])), Good(None)),
           is_active  |-> Field(m, "is_active", Optional(m["is_active"], BoolField(m["is_active"])), Good(None)),
           avatar_url |-> Field(m, "avatar_url", OptionalStr(m["avatar_url"]), Good(None))],
          UserUpdate_fields_set(m))

(* UserInDB *)
StoredFields == {"full_name", "email", "role", "is_active", "avatar_url",
                 "id", "hashed_password", "created_at", "updated_at"}

\* The id is read under its alias _id or, with populate_by_name, under its name.
UserInDB_id_input(m) == IF m["_id"] # Absent THEN m["_id"] ELSE m["id"]

\* Pydantic is taken to apply the validator PyObjectId declares through
\* __get_validators__ to every id that is not None.
UserInDB_id(v) ==
  IF v = Absent THEN Good(None) ELSE Optional(v, PyObjectId_validate(v))

\* The default factories read the clock in the order of the fields: t1 for
\* created_at, then t2 for updated_at.
UserInDB_timestamps_swapped(m, t1, t2) ==
  [created_at |-> Field(m, "created_at", DatetimeField(m["created_at"]), Good(Datetime(t2))),
   updated_at |-> Field(m, "updated_at", DatetimeField(m["updated_at"]), Good(Datetime(t1)))]

UserInDB_timestamps(m, t1, t2) ==
  [created_at |-> Field(m, "created_at", DatetimeField(m["created_at"]), Good(Datetime(t1))),
   updated_at |-> Field(m, "updated_at", DatetimeField(m["updated_at"]), Good(Datetime(t2)))]

UserInDB(m, t1, t2) ==
  Outcome(Merge(Merge(UserBase_fields(m),
                      [id |-> UserInDB_id(UserInDB_id_input(m)),
                       hashed_password |-> Field(m, "hashed_password",
                                                 StrField(m["hashed_password"]), Required)]),
                UserInDB_timestamps(m, t1, t2)),
          Present(m) \cap (StoredFields \cup {"_id"}))

(* UserResponse *)
PublicFields == {"id", "full_name", "email", "role", "is_active", "avatar_url",
                 "created_at", "updated_at"}

UserResponse_fields_checksId(m) ==
  [id         |-> Field(m, "id", PyObjectId_validate(m["id"]), Required),
   full_name  |-> Field(m, "full_name", StrField(m["full_name"]), Required),
   email      |-> Field(m, "email", EmailStr(m["email"]), Required),
   role       |-> Field(m, "role", UserRole(m["role"]), Required),
   is_active  |-> Field(m, "is_active", BoolField(m["is_active"]), Required),
   avatar_url |-> Field(m, "avatar_url", OptionalStr(m["avatar_url"]), Required),
   created_at |-> Field(m, "created_at", DatetimeField(m["created_at"]), Required),
   updated_at |-> Field(m, "updated_at", DatetimeField(m["updated_at"]), Required)]

UserResponse_fields(m) ==
  [id         |-> Field(m, "id", StrField(m["id"]), Required),
   full_name  |-> Field(m, "full_name", StrField(m["full_name"]), Required),
   email      |-> Field(m, "email", EmailStr(m["email"]), Required),
   role       |-> Field(m, "role", UserRole(m["role"]), Required),
   is_active  |-> Field(m, "is_active", BoolField(m["is_active"]), Required),
   avatar_url |-> Field(m, "avatar_url", OptionalStr(m["avatar_url"]), Required),
   created_at |-> Field(m, "created_at", DatetimeField(m["created_at"]), Required),
   updated_at |-> Field(m, "updated_at", DatetimeField(m["updated_at"]), Required)]

UserResponse_keepsExtra(m) ==
  Outcome(Merge([k \in Present(m) |-> Good(m[k])], UserResponse_fields(m)), Present(m))

UserResponse(m) == Outcome(UserResponse_fields(m), Present(m) \cap PublicFields)

\* from_attributes: the mapping of an object's attributes.
Attributes(obj) == [k \in AllKeys |-> IF k \in DOMAIN obj THEN obj[k] ELSE Absent]

-----------------------------------------------------------------------------
(* State: the clock, the UserInDB object in hand, and the last call made *)

NoRecord == [t |-> "NoRecord"]
NoCall == [op |-> "none"]

Init ==
  /\ now = 0
  /\ stored = NoRecord
  /\ last = NoCall

Call(op, input, out) == [op |-> op, input |-> input, out |-> out]

\* datetime.utcnow() is read at t, a reading not before the last one.
Readings(from) == from..MaxTime

\* PyObjectId.validate(value), called on its own.
ValidateId(v) ==
  /\ last' = Call("PyObjectId.validate", v, PyObjectId_validate(v))
  /\ UNCHANGED <<now, stored>>

\* UserCreate(**m)
ConstructUserCreate(m) ==
  /\ last' = Call("UserCreate", m, UserCreate(m))
  /\ UNCHANGED <<now, stored>>

\* UserUpdate(**m)
ConstructUserUpdate(m) ==
  /\ last' = Call("UserUpdate", m, UserUpdate(m))
  /\ UNCHANGED <<now, stored>>

\* UserInDB(**m): the default factories read the clock; the object built is the
\* record in hand from then on.
Kept(out, old) == IF out.ok THEN out.val ELSE old

ConstructUserInDB(m) ==
  \E t1 \in Readings(now) : \E t2 \in Readings(t1) :
    /\ last' = Call("UserInDB", m, UserInDB(m, t1, t2))
    /\ stored' = Kept(UserInDB(m, t1, t2), stored)
    /\ now' = t2

\* UserResponse(**m)
ConstructUserResponse(m) ==
  /\ last' = Call("UserResponse", m, UserResponse(m))
  /\ UNCHANGED <<now, stored>>

\* UserResponse.model_validate(stored): Public derived from the record in hand.
DerivePublic ==
  /\ stored # NoRecord
  /\ last' = Call("DerivePublic", Attributes(stored), UserResponse(Attributes(stored)))
  /\ UNCHANGED <<now, stored>>

\* An Update payload applied to a record at time t: every field of the payload is
\* validated by its rule in UserBase and overwrites the record's; updated_at is
\* set to the clock's reading.
Applied(rec, m, t) ==
  LET u == UserUpdate(m)
      given == IF u.ok THEN u.fields_set ELSE {}
      res == UserBase_fields([k \in AllKeys |-> IF k \in given THEN u.val[k] ELSE Absent])
      ok == u.ok /\ \A f \in given : res[f].ok
  IN  IF ok
      THEN [ok |-> TRUE,
            val |-> [f \in StoredFields |->
                       IF f \in given THEN res[f].val
                       ELSE IF f = "updated_at" THEN Datetime(t)
                       ELSE rec[f]]]
      ELSE [ok |-> FALSE, val |-> rec]

ApplyUpdate(m) ==
  /\ stored # NoRecord
  /\ \E t \in Readings(now) :
       /\ stored' = Applied(stored, m, t).val
       /\ last' = Call("ApplyUpdate", m, [ok |-> Applied(stored, m, t).ok])
       /\ now' = t

\* Time passes.
Tick ==
  /\ now < MaxTime
  /\ now' = now + 1
  /\ UNCHANGED <<stored, last>>

-----------------------------------------------------------------------------
(* Inputs *)

Names == {Str(Rep("x", n)) : n \in {MinNameLen - 1, MinNameLen, MaxNameLen, MaxNameLen + 1}}
EmailChars == {"a", "A", "@", " "}
Emails == {Str(b \o <<".", "C">> \o sp) : b \in SeqsUpTo(EmailChars, MaxEmailBody), sp \in {<<>>, <<" ">>}}
PwChars == {"a", "A", "1", "sup2"}
Passwords == {Str(Rep(p, MinPasswordLen - 2) \o tl) : p \in {"a", "A"}, tl \in SeqsUpTo(PwChars, MaxPwTail)}

GoodName == Str(Rep("x", MinNameLen))
MixedEmail == Str(<<"A", "@", "a", ".", "C">>)
GoodPassword == Str(Rep("a", MinPasswordLen - 2) \o <<"A", "1">>)
SomeOid == Oid(Rep(0, OidBytes - 1) \o <<171>>)
BadId == Str(<<"g">>)

\* Mappings for UserCreate: one field varied over its universe at a time, and
\* the keys UserCreate does not declare given or not.
ForbiddenInCreate == {"identifier", "hashed_password", "created_at", "updated_at"}
BaseCreate == [Empty EXCEPT !["full_name"] = GoodName, !["email"] = MixedEmail,
                            !["password"] = GoodPassword]
WithKeys(m, ks, v) == [k \in AllKeys |-> IF k \in ks THEN v ELSE m[k]]
CreateInputs ==
  {[BaseCreate EXCEPT !["password"] = p] : p \in Passwords \cup {Absent, None}}
  \cup {[BaseCreate EXCEPT !["email"] = e] : e \in Emails \cup {Absent}}
  \cup {[BaseCreate EXCEPT !["full_name"] = n] : n \in Names \cup {Absent, None}}
  \cup {WithKeys([BaseCreate EXCEPT !["password"] = p, !["email"] = e], ks, Str(<<"z">>)) :
          p \in {GoodPassword, Absent}, e \in {MixedEmail, None, Str(<<"a">>)},
          ks \in SUBSET ForbiddenInCreate}

UpdateInputs ==
  {[Empty EXCEPT !["email"] = e] : e \in Emails \cup {None}}
  \cup {[Empty EXCEPT !["full_name"] = n] : n \in Names \cup {None}}
  \cup {[Empty EXCEPT !["role"] = r, !["is_active"] = a, !["avatar_url"] = u, !["password"] = p] :
          r \in {Absent, None, Word("admin"), Word("root")}, a \in {Absent, Bool(FALSE)},
          u \in {Absent, None, Str(<<"u">>)}, p \in {Absent, GoodPassword}}

BaseStored == [Empty EXCEPT !["full_name"] = GoodName, !["email"] = MixedEmail,
                            !["hashed_password"] = Str(<<"h">>)]
StoredInputs ==
  {[BaseStored EXCEPT !["_id"] = i] : i \in IdInputs}
  \cup {[BaseStored EXCEPT !["id"] = i] : i \in ObjectIds \cup {BadId}}
  \cup {[BaseStored EXCEPT !["hashed_password"] = h, !["created_at"] = c, !["updated_at"] = u,
                           !["password"] = p] :
          h \in {Absent, Str(<<"h">>)}, c \in {Absent, Datetime(1)}, u \in {Absent, Datetime(0)},
          p \in {Absent, GoodPassword}}

BasePublic == [Empty EXCEPT !["full_name"] = GoodName, !["email"] = MixedEmail,
                            !["role"] = Word("intern"), !["is_active"] = Bool(TRUE),
                            !["avatar_url"] = None, !["created_at"] = Datetime(0),
                            !["updated_at"] = Datetime(0)]
PublicInputs ==
  {[BasePublic EXCEPT !["id"] = i, !["hashed_password"] = h] :
      i \in IdInputs \cup {Absent}, h \in {Absent, Str(<<"h">>)}}
  \cup {[BasePublic EXCEPT !["id"] = ObjectId_str(SomeOid), !["avatar_url"] = Absent]}

\* The record's life: few values of each field.
LifeStoredInputs ==
  {[BaseStored EXCEPT !["_id"] = i, !["avatar_url"] = u, !["hashed_password"] = h] :
      i \in {Absent, SomeOid, BadId}, u \in {Absent, Str(<<"u">>)}, h \in {Absent, Str(<<"h">>)}}
LifeUpdateInputs ==
  {[Empty EXCEPT !["full_name"] = n, !["email"] = e, !["role"] = r, !["is_active"] = a,
                 !["avatar_url"] = u, !["hashed_password"] = h] :
      n \in {Absent, Str(Rep("y", MinNameLen))}, e \in {Absent, Str(<<"B", "@", "a", ".", "c">>)},
      r \in {Absent, Word("admin")}, a \in {Absent, Bool(FALSE)},
      u \in {Absent, None}, h \in {Absent}}
  \cup {[Empty EXCEPT !["full_name"] = None],
        [Empty EXCEPT !["hashed_password"] = Str(<<"z">>), !["created_at"] = Datetime(0),
                      !["id"] = ObjectId_str(SomeOid)],
        [Empty EXCEPT !["role"] = Word("root")]}

-----------------------------------------------------------------------------
(* The life of one record: built once, updated, shown *)
Next ==
  \/ stored = NoRecord /\ \E m \in LifeStoredInputs : ConstructUserInDB(m)
  \/ \E m \in LifeUpdateInputs : ApplyUpdate(m)
  \/ DerivePublic
  \/ Tick

Spec == Init /\ [][Next]_vars

(* Single calls: each call on its own, from the initial state *)
NextShapes ==
  \/ last = NoCall /\ \E v \in IdInputs \ {None} : ValidateId(v)
  \/ last = NoCall /\ \E m \in CreateInputs : ConstructUserCreate(m)
  \/ last = NoCall /\ \E m \in UpdateInputs : ConstructUserUpdate(m)
  \/ last = NoCall /\ \E m \in StoredInputs : ConstructUserInDB(m)
  \/ last = NoCall /\ \E m \in PublicInputs : ConstructUserResponse(m)

SpecShapes == Init /\ [][NextShapes]_vars

-----------------------------------------------------------------------------
(* Properties *)

Err(f, k) == [field |-> f, kind |-> k]
IsApplyStep == last'.op = "ApplyUpdate" /\ last'.out.ok /\ (last' # last \/ stored' # stored)
IsCreationStep == last'.op = "UserInDB" /\ last'.out.ok /\ last' # last
\* A well-formed wire identifier: 24 characters, each a hexadecimal digit.
WellFormedId(s) == Len(s) = OidHexLen /\ \A i \in 1..Len(s) : s[i] \in HexChars

\* C1: the Public shape derived from a Stored record has exactly the fields id,
\* full_name, email, role, is_active, avatar_url, created_at, updated_at: no
\* hashed_password and no password, whatever the record went through.
C1_PublicFieldSet ==
  last.op = "DerivePublic" /\ last.out.ok =>
    /\ DOMAIN last.out.val = PublicFields
    /\ "hashed_password" \notin DOMAIN last.out.val
    /\ "password" \notin DOMAIN last.out.val

C1_Witness ==
  /\ last.op = "DerivePublic" /\ last.out.ok
  /\ last.input["hashed_password"] = Str(<<"h">>)
  /\ stored["role"] = Word("admin")

\* C7 (as claimed): deriving Public from any Stored shape that construction
\* accepted never fails, also when the shape was built without an identifier.
C7_DeriveNeverFails == last.op = "DerivePublic" => last.out.ok

\* C7 (amended): deriving Public from a Stored shape succeeds exactly when the
\* shape has an identifier; the identifier of a shape built without one is None,
\* which Public's id refuses.
C7_DeriveFailsOnlyWithoutId ==
  last.op = "DerivePublic" =>
    /\ last.out.ok <=> stored["id"] # None
    /\ last.out.ok => last.out.val["id"] = stored["id"]
    /\ ~last.out.ok => last.out.errors = {Err("id", "InvalidType")}

C7_Witness ==
  /\ last.op = "DerivePublic" /\ last.out.ok
  /\ last.out.val["id"] = ObjectId_str(SomeOid)

\* C5: applying an Update leaves every field of the record that the payload does
\* not give (identifier, hashed_password and created_at among them) as it was,
\* updated_at apart, and sets a field to None only if the payload gives None.
C5_UpdateFrame ==
  [][IsApplyStep =>
       /\ \A f \in StoredFields \ ((Present(last'.input) \cap UpdateFields) \cup {"updated_at"}) :
            stored'[f] = stored[f]
       /\ \A f \in StoredFields : stored'[f] = None /\ stored[f] # None => last'.input[f] = None]_vars

C5_Witness ==
  /\ last.op = "ApplyUpdate" /\ last.out.ok
  /\ Present(last.input) = {"role"}
  /\ stored["role"] = Word("admin")
  /\ stored["avatar_url"] = Str(<<"u">>)
  /\ stored["updated_at"].ts > stored["created_at"].ts

\* C6 (as claimed): updated_at strictly increases at every application of an
\* Update, created_at keeps its value, and at creation created_at = updated_at.
C6_StrictlyIncreasing ==
  [][/\ IsApplyStep => /\ stored'["updated_at"].ts > stored["updated_at"].ts
                       /\ stored'["created_at"] = stored["created_at"]
     /\ IsCreationStep => stored'["created_at"] = stored'["updated_at"]]_vars

\* C6 (amended): every application of an Update, an empty one too, sets updated_at
\* to the clock's reading, so updated_at never decreases and increases when the
\* clock has advanced since the last write; created_at keeps its value; at
\* creation created_at <= updated_at, the two being read from the clock in turn.
C6_NeverDecreasing ==
  [][/\ IsApplyStep => /\ stored'["updated_at"].ts = now'
                       /\ stored'["updated_at"].ts >= stored["updated_at"].ts
                       /\ now' > stored["updated_at"].ts => stored'["updated_at"].ts > stored["updated_at"].ts
                       /\ stored'["created_at"] = stored["created_at"]
     /\ IsCreationStep => /\ stored'["created_at"].ts <= stored'["updated_at"].ts
                          /\ stored'["updated_at"].ts = now']_vars

C6_Witness ==
  /\ last.op = "ApplyUpdate" /\ last.out.ok
  /\ Present(last.input) = {}
  /\ stored["created_at"].ts = 0
  /\ stored["updated_at"].ts = MaxTime

C4_MalformedIdRejected ==
  /\ last.op = "PyObjectId.validate" /\ IsStr(last.input) /\ ~WellFormedId(last.input.s) =>
       last.out = Bad("InvalidIdentifier")
  /\ last.op = "UserInDB" /\ IsStr(UserInDB_id_input(last.input))
       /\ ~WellFormedId(UserInDB_id_input(last.input).s) =>
       ~last.out.ok /\ Err("id", "InvalidIdentifier") \in last.out.errors

\* C8 (as claimed): no Public shape is constructed from an id that is no
\* well-formed wire identifier.
C8_PublicIdChecked ==
  last.op = "UserResponse" /\ ~(IsStr(last.input["id"]) /\ WellFormedId(last.input["id"].s)) =>
    ~last.out.ok

\* C8 (amended): Public's id is a plain str: construction fails on the id when it
\* is missing or no string, and accepts any string, well formed or not, as it is.
C8_PublicIdAnyStr ==
  last.op = "UserResponse" =>
    /\ last.out.ok => IsStr(last.input["id"]) /\ last.out.val["id"] = last.input["id"]
    /\ ~IsStr(last.input["id"]) =>
         ~last.out.ok /\ \E e \in last.out.errors : e.field = "id"
    /\ IsStr(last.input["id"]) /\ ~last.out.ok => \A e \in last.out.errors : e.field # "id"

C8_Witness ==
  /\ last.op = "UserResponse" /\ last.out.ok
  /\ ~WellFormedId(last.out.val["id"].s)

\* C9: a full_name or an email given to Update is accepted exactly when Create
\* accepts it, with the same resulting value; an email held by an Update is in
\* lower case.
C9_UpdateAsCreate ==
  /\ last.op = "UserUpdate" /\ IsStr(last.input["email"]) =>
       /\ last.out.ok <=> UserBase_email(last.input["email"]).ok
       /\ last.out.ok => /\ last.out.val["email"] = UserBase_email(last.input["email"]).val
                         /\ Lower(last.out.val["email"].s) = last.out.val["email"].s
  /\ last.op = "UserUpdate" /\ IsStr(last.input["full_name"]) =>
       /\ last.out.ok <=> UserBase_full_name(last.input["full_name"]).ok
       /\ last.out.ok => last.out.val["full_name"] = UserBase_full_name(last.input["full_name"]).val

HasChar(s, S) == \E i \in 1..Len(s) : s[i] \in S
PasswordCall ==
  /\ last.op = "UserCreate"
  /\ IsStr(last.input["password"])
  /\ last.input = [BaseCreate EXCEPT !["password"] = last.input["password"]]

=============================================================================
